---- MODULE Spec2Model ----
(***************************************************************************)
(* Model of the terrain mesh pipeline of src/wasm/src/lib.rs:              *)
(* interpolate_elevations, calculate_normal, get_color_for_elevation and   *)
(* mesh_compute.                                                           *)
(*                                                                         *)
(* Every f32 of the source is an IEEE-754 binary32 value here: a record    *)
(* [cls, sgn, man, exp].  A finite non-zero value is man * 2^exp with      *)
(* 2^23 <= man < 2^24 (subnormals are kept in this normalised form, their  *)
(* low mantissa bits zero); zero is man = 0; cls is "inf" or "nan" for the *)
(* non-finite values.  Every arithmetic operator rounds to nearest, ties   *)
(* to even, overflows to infinity and underflows through the subnormals,   *)
(* as the f32 operations of the source do.                                 *)
(***************************************************************************)
EXTENDS Integers, Sequences, FiniteSets, TLC

\* ------------------------------------------------------------------ f32

\* binary32: 24 significant bits, least exponent of an integer mantissa
\* -149, greatest 104.
MantBits == 24
MinExp == -149
MaxExp == 104

Max(a, b) == IF a >= b THEN a ELSE b
Min(a, b) == IF a <= b THEN a ELSE b

\* The number of bits of n, 0 <= n < 2^31: the least L in lo..hi with
\* n < 2^L, by bisection.
RECURSIVE BitLenIn(_, _, _)
BitLenIn(n, lo, hi) ==
    IF lo = hi THEN lo
    ELSE IF n < 2^((lo + hi) \div 2) THEN BitLenIn(n, lo, (lo + hi) \div 2)
    ELSE BitLenIn(n, ((lo + hi) \div 2) + 1, hi)
BitLen(n) == IF n >= 2^30 THEN 31 ELSE BitLenIn(n, 0, 30)

NaN == [cls |-> "nan", sgn |-> 0, man |-> 0, exp |-> 0]
Inf(s) == [cls |-> "inf", sgn |-> s, man |-> 0, exp |-> 0]
Zero(s) == [cls |-> "num", sgn |-> s, man |-> 0, exp |-> 0]

IsNaN(a) == a.cls = "nan"
IsInf(a) == a.cls = "inf"
IsFinite(a) == a.cls = "num"
IsZero(a) == a.cls = "num" /\ a.man = 0
Neg(a) == IF IsNaN(a) THEN a ELSE [a EXCEPT !.sgn = 1 - a.sgn]
SignXor(a, b) == (a.sgn + b.sgn) % 2

\* The value (-1)^s * q * 2^e in normalised form, q > 0 of L bits that is
\* a 24-bit integer shifted (or exactly 2^24); infinity on overflow.
NormL(s, q, e, L) ==
    IF e + L - MantBits > MaxExp THEN Inf(s)
    ELSE [cls |-> "num", sgn |-> s,
          man |-> IF L > MantBits THEN q \div 2^(L - MantBits)
                  ELSE q * 2^(MantBits - L),
          exp |-> e + L - MantBits]
Norm(s, q, e) == IF q = 0 THEN Zero(s) ELSE NormL(s, q, e, BitLen(q))

\* Nearest, ties to even: the quotient q of a shift, its remainder r, half
\* of the divisor, and whether digits below r were dropped.
RoundQ(q, r, half, sticky) ==
    IF r > half \/ (r = half /\ (sticky \/ q % 2 = 1)) THEN q + 1 ELSE q

\* Round (-1)^s * (M + f) * 2^E to binary32, where M > 0 has L bits,
\* 0 <= f < 1 and f > 0 exactly when `sticky`, by dropping sh bits.
RoundSh(s, M, E, sticky, L, sh) ==
    IF sh <= 0 THEN Norm(s, M, E)
    ELSE IF sh > L THEN Zero(s)
    ELSE Norm(s, RoundQ(M \div 2^sh, M % 2^sh, 2^(sh - 1), sticky), E + sh)
RoundL(s, M, E, sticky, L) ==
    RoundSh(s, M, E, sticky, L, Max(L - MantBits, MinExp - E))
RoundPack(s, M, E, sticky) ==
    IF M = 0 THEN Zero(s) ELSE RoundL(s, M, E, sticky, BitLen(M))

\* |a| >= |b| for finite a, b.
MagGe(a, b) ==
    IF b.man = 0 THEN TRUE
    ELSE IF a.man = 0 THEN FALSE
    ELSE a.exp > b.exp \/ (a.exp = b.exp /\ a.man >= b.man)

\* The sum of the aligned mantissas M1 >= M2 with signs sb, ss; an exact
\* difference of zero is +0.
AddMant(sb, ss, M1, M2, E, sticky) ==
    RoundPack(IF sb # ss /\ M1 = M2 /\ ~sticky THEN 0 ELSE sb,
              IF sb = ss THEN M1 + M2
              ELSE IF sticky THEN M1 - M2 - 1 ELSE M1 - M2,
              E, sticky)

\* big + small, both non-zero, d the difference of their exponents: the
\* smaller mantissa is aligned, keeping six guard bits of the larger.
AddAligned(big, small, d) ==
    AddMant(big.sgn, small.sgn,
            IF d <= 6 THEN big.man * 2^d ELSE big.man * 64,
            IF d <= 6 THEN small.man
              ELSE IF d - 6 > MantBits THEN 0 ELSE small.man \div 2^(d - 6),
            IF d <= 6 THEN small.exp ELSE big.exp - 6,
            IF d <= 6 THEN FALSE
              ELSE IF d - 6 > MantBits THEN TRUE ELSE (small.man % 2^(d - 6)) # 0)

\* big + small, |big| >= |small|.
AddOrdered(big, small) ==
    IF big.man = 0 THEN Zero(IF big.sgn = small.sgn THEN big.sgn ELSE 0)
    ELSE IF small.man = 0 THEN big
    ELSE AddAligned(big, small, big.exp - small.exp)

AddFinite(a, b) ==
    AddOrdered(IF MagGe(a, b) THEN a ELSE b, IF MagGe(a, b) THEN b ELSE a)

\* a + b
FAdd(a, b) ==
    IF IsNaN(a) \/ IsNaN(b) THEN NaN
    ELSE IF IsInf(a) /\ IsInf(b) THEN (IF a.sgn = b.sgn THEN a ELSE NaN)
    ELSE IF IsInf(a) THEN a
    ELSE IF IsInf(b) THEN b
    ELSE AddFinite(a, b)

\* a - b
FSub(a, b) == FAdd(a, Neg(b))

\* The 48-bit product hi0 * 2^24 + lo0 of two mantissas, rounded.
MulHiLo(s, hi0, lo0, E) ==
    RoundPack(s, (hi0 + (lo0 \div 2^24)) * 4 + ((lo0 % 2^24) \div 2^22), E,
              (lo0 % 2^22) # 0)
\* The partial products of the 12-bit halves of two mantissas.
MulSum(s, hh, mid, ll, E) ==
    MulHiLo(s, hh + (mid \div 4096), ll + ((mid % 4096) * 4096), E)
MulLimbs(s, a1, a0, b1, b0, E) ==
    MulSum(s, a1 * b1, a1 * b0 + a0 * b1, a0 * b0, E)

\* a * b
FMul(a, b) ==
    IF IsNaN(a) \/ IsNaN(b) THEN NaN
    ELSE IF (IsInf(a) /\ IsZero(b)) \/ (IsZero(a) /\ IsInf(b)) THEN NaN
    ELSE IF IsInf(a) \/ IsInf(b) THEN Inf(SignXor(a, b))
    ELSE IF a.man = 0 \/ b.man = 0 THEN Zero(SignXor(a, b))
    ELSE MulLimbs(SignXor(a, b), a.man \div 4096, a.man % 4096,
                  b.man \div 4096, b.man % 4096, a.exp + b.exp + 22)

\* Long division, seven quotient bits a step for n steps (r < d < 2^24),
\* then the rounding of the quotient q with remainder r.
RECURSIVE DivBits(_, _, _, _, _, _)
DivBits(s, q, r, d, E, n) ==
    IF n = 0 THEN RoundPack(s, q, E, r # 0)
    ELSE DivBits(s, (q * 128) + ((r * 128) \div d), (r * 128) % d, d, E, n - 1)

\* a / b
FDiv(a, b) ==
    IF IsNaN(a) \/ IsNaN(b) THEN NaN
    ELSE IF (IsInf(a) /\ IsInf(b)) \/ (IsZero(a) /\ IsZero(b)) THEN NaN
    ELSE IF IsInf(a) \/ IsZero(b) THEN Inf(SignXor(a, b))
    ELSE IF IsInf(b) \/ IsZero(a) THEN Zero(SignXor(a, b))
    ELSE DivBits(SignXor(a, b), a.man \div b.man, a.man % b.man, b.man,
                 a.exp - b.exp - 28, 4)

\* Square root, a bit a step: the base-4 digits i-1 .. 0 of the radicand
\* m, then z digits 0, are brought down to the remainder; then the
\* rounding of the root with the remainder left.
RECURSIVE SqrtBits(_, _, _, _, _, _)
SqrtTry(m, r, root, i, z, E) ==
    IF r >= root * 4 + 1 THEN SqrtBits(m, r - (root * 4 + 1), 2 * root + 1, i, z, E)
    ELSE SqrtBits(m, r, 2 * root, i, z, E)
SqrtBits(m, rem, root, i, z, E) ==
    IF i = 0 /\ z = 0 THEN RoundPack(0, root, E, rem # 0)
    ELSE IF i > 0 THEN SqrtTry(m, rem * 4 + ((m \div 4^(i - 1)) % 4), root, i - 1, z, E)
    ELSE SqrtTry(m, rem * 4, root, 0, z - 1, E)

\* a.sqrt()
FSqrt(a) ==
    IF IsNaN(a) THEN NaN
    ELSE IF IsZero(a) THEN a
    ELSE IF a.sgn = 1 THEN NaN
    ELSE IF IsInf(a) THEN a
    ELSE IF a.exp % 2 = 1
      THEN SqrtBits(2 * a.man, 0, 0, 13, 14, ((a.exp - 1) \div 2) - 14)
    ELSE SqrtBits(a.man, 0, 0, 13, 14, (a.exp \div 2) - 14)

\* |a| >= |b| for a, b not NaN.
Larger(a, b) ==
    IF IsInf(a) THEN TRUE ELSE IF IsInf(b) THEN FALSE ELSE MagGe(a, b)

\* a < b, a == b, a <= b, a >= b of f32: false when either side is NaN,
\* and -0.0 == 0.0.
FLt(a, b) ==
    IF IsNaN(a) \/ IsNaN(b) THEN FALSE
    ELSE IF IsZero(a) /\ IsZero(b) THEN FALSE
    ELSE IF a.sgn # b.sgn THEN a.sgn = 1
    ELSE IF a = b THEN FALSE
    ELSE IF a.sgn = 0 THEN ~Larger(a, b) ELSE Larger(a, b)
FEq(a, b) ==
    IF IsNaN(a) \/ IsNaN(b) THEN FALSE
    ELSE (IsZero(a) /\ IsZero(b)) \/ a = b
FLe(a, b) == FLt(a, b) \/ FEq(a, b)
FGe(a, b) == FLe(b, a)

\* n as f32, for a usize n below 2^31.
FromUsize(n) == RoundPack(0, n, 0, FALSE)

\* The greatest usize the model represents; `as usize` saturates.
UsizeTop == 2^30

\* a.floor() as usize: NaN and negative values give 0, values beyond the
\* range saturate.
FloorAsUsize(a) ==
    IF IsNaN(a) THEN 0
    ELSE IF a.sgn = 1 THEN 0
    ELSE IF IsInf(a) THEN UsizeTop
    ELSE IF a.man = 0 THEN 0
    ELSE IF a.exp >= 6 THEN UsizeTop
    ELSE IF a.exp >= 0 THEN a.man * 2^a.exp
    ELSE IF a.exp < -MantBits THEN 0
    ELSE a.man \div 2^(-a.exp)

\* The f32 man * 2^exp, 2^23 <= man < 2^24: how a literal of the source
\* is written here, with the f32 nearest to it.
F32(m, e) == [cls |-> "num", sgn |-> 0, man |-> m, exp |-> e]
One == F32(8388608, -23)
Two == F32(8388608, -22)

\* 2^e as f32, for MinExp <= e <= 127.
Pow2F(e) == F32(2^(MantBits - 1), e - (MantBits - 1))

\* ------------------------------------------------------------ the code

RGB(r, g, b) == [r |-> r, g |-> g, b |-> b]

\* The stops 0.0, 0.1, 0.3, 0.5, 0.7, 0.9, 1.0 and their colours, each
\* decimal as the f32 nearest to it:
\*   0.1 = 13421773 * 2^-27   0.2  = 13421773 * 2^-26   0.3  = 10066330 * 2^-25
\*   0.4 = 13421773 * 2^-25   0.5  =  8388608 * 2^-24   0.55 =  9227469 * 2^-24
\*   0.6 = 10066330 * 2^-24   0.7  = 11744051 * 2^-24   0.75 = 12582912 * 2^-24
\*   0.8 = 13421773 * 2^-24   0.9  = 15099494 * 2^-24   0.95 = 15938355 * 2^-24
TERRAIN_COLORS == <<
    <<Zero(0),
      RGB(F32(10066330, -24), F32(10066330, -24), F32(15938355, -24))>>,
    <<F32(13421773, -27),
      RGB(F32(13421773, -25), F32(13421773, -24), F32(13421773, -25))>>,
    <<F32(10066330, -25),
      RGB(F32(13421773, -26), F32(10066330, -24), F32(13421773, -26))>>,
    <<F32(8388608, -24),
      RGB(F32(13421773, -24), F32(11744051, -24), F32(8388608, -24))>>,
    <<F32(11744051, -24),
      RGB(F32(11744051, -24), F32(9227469, -24), F32(13421773, -25))>>,
    <<F32(15099494, -24),
      RGB(F32(12582912, -24), F32(12582912, -24), F32(12582912, -24))>>,
    <<One, RGB(One, One, One)>> >>

\* c1 + (c2 - c1) * terped_color, one channel.
Mix(c1, c2, terped_color) == FAdd(c1, FMul(FSub(c2, c1), terped_color))

\* The RGB the scan returns for a pair of stops.
Blend(color1, color2, terped_color) ==
    RGB(Mix(color1.r, color2.r, terped_color),
        Mix(color1.g, color2.g, terped_color),
        Mix(color1.b, color2.b, terped_color))

\* BlendStops with t = (value - stop1) / stop2.
BlendStops_NoSpan(normalized_elevation, i) ==
    Blend(TERRAIN_COLORS[i][2], TERRAIN_COLORS[i + 1][2],
          FDiv(FSub(normalized_elevation, TERRAIN_COLORS[i][1]),
               TERRAIN_COLORS[i + 1][1]))

\* The body of the scan's `if`: the blend of stops i and i+1 at the value.
BlendStops(normalized_elevation, i) ==
    Blend(TERRAIN_COLORS[i][2], TERRAIN_COLORS[i + 1][2],
          FDiv(FSub(normalized_elevation, TERRAIN_COLORS[i][1]),
               FSub(TERRAIN_COLORS[i + 1][1], TERRAIN_COLORS[i][1])))

\* Brackets without the test against stop1.
Brackets_UpperOnly(normalized_elevation, i) ==
    FLe(normalized_elevation, TERRAIN_COLORS[i + 1][1])

\* The scan's condition for the pair of stops i, i+1.
Brackets(normalized_elevation, i) ==
    /\ FGe(normalized_elevation, TERRAIN_COLORS[i][1])
    /\ FLe(normalized_elevation, TERRAIN_COLORS[i + 1][1])

RECURSIVE ColorScan(_, _)
ColorScan(normalized_elevation, i) ==
    IF i > Len(TERRAIN_COLORS) - 1
      THEN TERRAIN_COLORS[Len(TERRAIN_COLORS)][2]
    ELSE IF Brackets(normalized_elevation, i)
      THEN BlendStops(normalized_elevation, i)
    ELSE ColorScan(normalized_elevation, i + 1)

get_color_for_elevation(normalized_elevation) == ColorScan(normalized_elevation, 1)

\* b - a of two points: edge1, edge2.
Edge(a, b) == <<FSub(b[1], a[1]), FSub(b[2], a[2]), FSub(b[3], a[3])>>

\* Cross with the operands of each difference exchanged: edge2 x edge1.
Cross_Swapped(edge1, edge2) ==
    << FSub(FMul(edge1[3], edge2[2]), FMul(edge1[2], edge2[3])),
       FSub(FMul(edge1[1], edge2[3]), FMul(edge1[3], edge2[1])),
       FSub(FMul(edge1[2], edge2[1]), FMul(edge1[1], edge2[2])) >>

\* edge1 x edge2, each product and difference rounded.
Cross(edge1, edge2) ==
    << FSub(FMul(edge1[2], edge2[3]), FMul(edge1[3], edge2[2])),
       FSub(FMul(edge1[3], edge2[1]), FMul(edge1[1], edge2[3])),
       FSub(FMul(edge1[1], edge2[2]), FMul(edge1[2], edge2[1])) >>

CrossProduct(v1, v2, v3) == Cross(Edge(v1, v2), Edge(v1, v3))

\* The sum of the squares of a vector's components, left to right.
SquaredLength(n) ==
    FAdd(FAdd(FMul(n[1], n[1]), FMul(n[2], n[2])), FMul(n[3], n[3]))

VectorLength(n) == FSqrt(SquaredLength(n))

\* NormalizeBy without the zero check.
NormalizeBy_NoZeroCheck(normal, length) ==
    <<FDiv(normal[1], length), FDiv(normal[2], length), FDiv(normal[3], length)>>

\* The zero check and the division by the length.
NormalizeBy(normal, length) ==
    IF FEq(length, Zero(0)) THEN <<Zero(0), Zero(0), Zero(0)>>
    ELSE <<FDiv(normal[1], length), FDiv(normal[2], length),
           FDiv(normal[3], length)>>

Normalize(normal) == NormalizeBy(normal, VectorLength(normal))

calculate_normal(v1, v2, v3) == Normalize(CrossProduct(v1, v2, v3))

\* orig_x (orig_y) of target column x.
OrigCoord(x, original_width, new_width) ==
    FDiv(FMul(FromUsize(x), FSub(FromUsize(original_width), One)),
         FSub(FromUsize(new_width), One))

\* Neighbour without the clamp to the last column (row).
Neighbour_NoClamp(x1, original_width) == x1 + 1

\* x2 (y2) from x1 (y1).
Neighbour(x1, original_width) == Min(x1 + 1, original_width - 1)

\* The indices of z1 .. z4 in `elevations`.
SourceReads(original_width, original_height, x1, y1) ==
    << y1 * original_width + x1,
       y1 * original_width + Neighbour(x1, original_width),
       Neighbour(y1, original_height) * original_width + x1,
       Neighbour(y1, original_height) * original_width
           + Neighbour(x1, original_width) >>

\* The four indices of `elevations` target cell (x, y) reads.
InterpReads(original_width, original_height, new_width, new_height, x, y) ==
    SourceReads(original_width, original_height,
                FloorAsUsize(OrigCoord(x, original_width, new_width)),
                FloorAsUsize(OrigCoord(y, original_height, new_height)))

\* Bilinear with the weights of each axis exchanged.
Bilinear_WeightsSwapped(z1, z2, z3, z4, dx, dy) ==
    FAdd(FAdd(FAdd(FMul(FMul(z1, dx), dy),
                   FMul(FMul(z2, FSub(One, dx)), dy)),
              FMul(FMul(z3, dx), FSub(One, dy))),
         FMul(FMul(z4, FSub(One, dx)), FSub(One, dy)))

\* z1 (1-dx) (1-dy) + z2 dx (1-dy) + z3 (1-dx) dy + z4 dx dy
Bilinear(z1, z2, z3, z4, dx, dy) ==
    FAdd(FAdd(FAdd(FMul(FMul(z1, FSub(One, dx)), FSub(One, dy)),
                   FMul(FMul(z2, dx), FSub(One, dy))),
              FMul(FMul(z3, FSub(One, dx)), dy)),
         FMul(FMul(z4, dx), dy))

\* The blend at the source coordinate (orig_x, orig_y), rd the indices
\* read, x1 and y1 the floors.
InterpAt(elev, rd, orig_x, orig_y, x1, y1) ==
    Bilinear(elev[rd[1] + 1], elev[rd[2] + 1], elev[rd[3] + 1], elev[rd[4] + 1],
             FSub(orig_x, FromUsize(x1)), FSub(orig_y, FromUsize(y1)))

InterpFrom(elev, original_width, original_height, orig_x, orig_y) ==
    InterpAt(elev,
             SourceReads(original_width, original_height,
                         FloorAsUsize(orig_x), FloorAsUsize(orig_y)),
             orig_x, orig_y, FloorAsUsize(orig_x), FloorAsUsize(orig_y))

\* The bilinear blend stored at target cell (x, y).
InterpValue(elev, original_width, original_height, new_width, new_height, x, y) ==
    InterpFrom(elev, original_width, original_height,
               OrigCoord(x, original_width, new_width),
               OrigCoord(y, original_height, new_height))

\* An indexing of `elevations` out of range: the call panics.
InterpPanics(elev, original_width, original_height, new_width, new_height) ==
    \E y \in 0..(new_height - 1), x \in 0..(new_width - 1) :
        \E k \in 1..4 :
            InterpReads(original_width, original_height, new_width, new_height, x, y)[k]
                >= Len(elev)

interpolate_elevations(elev, original_width, original_height, new_width, new_height) ==
    [i \in 1..(new_width * new_height) |->
        InterpValue(elev, original_width, original_height, new_width, new_height,
                    (i - 1) % new_width, (i - 1) \div new_width)]

\* index / (dim - 1) * 2 - 1
GridCoord(index, dim) ==
    FSub(FMul(FDiv(FromUsize(index), FromUsize(dim - 1)), Two), One)

\* The indices of `interpolated` cell (x, y) reads: z1 .. z4.
CellReads(new_width, x, y) ==
    << y * new_width + x, y * new_width + (x + 1),
       (y + 1) * new_width + x, (y + 1) * new_width + (x + 1) >>

\* The four corners from their coordinates and the indices read.
Quad(interp, rd, x1, x2, y1, y2) ==
    << <<x1, y1, interp[rd[1] + 1]>>, <<x2, y1, interp[rd[2] + 1]>>,
       <<x1, y2, interp[rd[3] + 1]>>, <<x2, y2, interp[rd[4] + 1]>> >>

quad_vertices(interp, new_width, new_height, x, y) ==
    Quad(interp, CellReads(new_width, x, y),
         GridCoord(x, new_width), GridCoord(x + 1, new_width),
         GridCoord(y, new_height), GridCoord(y + 1, new_height))

\* triangle_indices with the second triangle's corners in index order.
triangle_indices_InOrder == << <<1, 2, 3>>, <<2, 3, 4>> >>

\* Corner indices of the two triangles of a cell, counted from 1.
triangle_indices == << <<1, 2, 3>>, <<2, 4, 3>> >>

\* The three floats a colour appends to `colors`.
ColorOut(color) == <<color.r, color.g, color.b>>

\* The normal, three times over.
NormalOut(normal) == normal \o normal \o normal

\* What the triangle of corners c1, c2, c3 appends to the three buffers.
CornersOut(c1, c2, c3) ==
    [vertices |-> c1 \o c2 \o c3,
     normals |-> NormalOut(calculate_normal(c1, c2, c3)),
     colors |-> ColorOut(get_color_for_elevation(c1[3]))
                \o ColorOut(get_color_for_elevation(c2[3]))
                \o ColorOut(get_color_for_elevation(c3[3]))]

\* TriangleOut with one normal for the cell, that of its first three
\* corners.
TriangleOut_CellNormal(quad, indices) ==
    [vertices |-> quad[indices[1]] \o quad[indices[2]] \o quad[indices[3]],
     normals |-> NormalOut(calculate_normal(quad[1], quad[2], quad[3])),
     colors |-> ColorOut(get_color_for_elevation(quad[indices[1]][3]))
                \o ColorOut(get_color_for_elevation(quad[indices[2]][3]))
                \o ColorOut(get_color_for_elevation(quad[indices[3]][3]))]

TriangleOut(quad, indices) ==
    CornersOut(quad[indices[1]], quad[indices[2]], quad[indices[3]])

\* One triangle's output after another's.
Joined(t1, t2) ==
    [vertices |-> t1.vertices \o t2.vertices,
     normals |-> t1.normals \o t2.normals,
     colors |-> t1.colors \o t2.colors]

\* What one cell appends to each of the three buffers.
CellOut(quad) ==
    Joined(TriangleOut(quad, triangle_indices[1]),
           TriangleOut(quad, triangle_indices[2]))

\* ------------------------------------------------------------ the calls

\* Bounds of the inputs: the grid is at most MaxDim x MaxDim samples, the
\* tessellation factor at most MaxTess, the upsampled grid at most MaxGrid
\* a side.
MaxDim == 3
MaxTess == 2
MaxGrid == 6

\* Elevations the inputs are drawn from: inside [0, 1] (0.1 a stop of the
\* ramp), below it, huge but finite, and not finite.
Samples == << One, F32(13421773, -27), Neg(Two), Pow2F(70), Inf(0) >>

\* A grid of `len` samples, all 0.0 but the k-th, which is `spike`.
SpikeGrid(len, k, spike) == [i \in 1..len |-> IF i = k THEN spike ELSE Zero(0)]

\* The places tried for the spike: the first two samples and the last.
SpikeAt(len) == {k \in {1, 2, len} : k <= len}

\* The inputs of a width x height call: every spike grid of the right
\* length, and the flat grids one sample short and one sample long.
ElevationInputs(w, h) ==
    { SpikeGrid(w * h, k, Samples[s]) : k \in SpikeAt(w * h), s \in 1..Len(Samples) }
    \cup { SpikeGrid(len, 0, Zero(0)) : len \in {n \in {w * h - 1, w * h + 1} : n >= 0} }

VARIABLES
    pc,                   \* where the call is: "start", "loop", "done", "panic"
    elevations, width, height, tessellation_factor,    \* mesh_compute's arguments
    interpolated,         \* the upsampled grid
    x, y,                 \* the cell the tessellation loops are at
    vertices, colors, normals, vertex_count,    \* MeshComputeData
    arg, ret              \* argument and result of a call of a private function

vars == << pc, elevations, width, height, tessellation_factor, interpolated,
           x, y, vertices, colors, normals, vertex_count, arg, ret >>

new_width == width * tessellation_factor
new_height == height * tessellation_factor

\* n - 1 of usize where overflow checks are off: 0 - 1 wraps to the top.
WrapSub1(n) == IF n = 0 THEN UsizeTop ELSE n - 1

\* The ends of the ranges `0..new_height - 1` and `0..new_width - 1`.
Rows == WrapSub1(new_height)
Cols == WrapSub1(new_width)

NoCall == [fn |-> "none"]

Init ==
    /\ pc = "start"
    /\ width \in 0..MaxDim
    /\ height \in 0..MaxDim
    /\ tessellation_factor \in 0..MaxTess
    /\ width * tessellation_factor <= MaxGrid
    /\ height * tessellation_factor <= MaxGrid
    /\ elevations \in ElevationInputs(width, height)
    /\ interpolated = << >>
    /\ x = 0
    /\ y = 0
    /\ vertices = << >>
    /\ colors = << >>
    /\ normals = << >>
    /\ vertex_count = 0
    /\ arg = NoCall
    /\ ret = NoCall

\* mesh_compute up to the tessellation loops: the upsampled grid, or the
\* panic of an index of `elevations` out of range.
Interpolate ==
    /\ pc = "start"
    /\ IF InterpPanics(elevations, width, height, new_width, new_height)
         THEN /\ pc' = "panic"
              /\ UNCHANGED interpolated
         ELSE /\ pc' = "loop"
              /\ interpolated' = interpolate_elevations(elevations, width, height,
                                                        new_width, new_height)
    /\ UNCHANGED << elevations, width, height, tessellation_factor, x, y,
                    vertices, colors, normals, vertex_count, arg, ret >>

\* With overflow checks on, `new_height - 1` (and, once a row is entered,
\* `new_width - 1`) panics on 0 - 1.
OverflowPanic ==
    /\ pc = "loop"
    /\ new_height = 0 \/ (y < Rows /\ new_width = 0)
    /\ pc' = "panic"
    /\ UNCHANGED << elevations, width, height, tessellation_factor, interpolated,
                    x, y, vertices, colors, normals, vertex_count, arg, ret >>

InCell == pc = "loop" /\ y < Rows /\ x < Cols

CellInRange == \A k \in 1..4 : CellReads(new_width, x, y)[k] < Len(interpolated)

\* The body of the loops at a cell whose reads of `interpolated` are out
\* of range.
IndexPanic ==
    /\ InCell
    /\ ~CellInRange
    /\ pc' = "panic"
    /\ UNCHANGED << elevations, width, height, tessellation_factor, interpolated,
                    x, y, vertices, colors, normals, vertex_count, arg, ret >>

\* The buffers after a cell's output is appended.
Emit(out) ==
    /\ vertices' = vertices \o out.vertices
    /\ normals' = normals \o out.normals
    /\ colors' = colors \o out.colors

\* The body of the loops at cell (x, y), and the step to the next cell.
EmitCell ==
    /\ InCell
    /\ CellInRange
    /\ Emit(CellOut(quad_vertices(interpolated, new_width, new_height, x, y)))
    /\ IF x + 1 < Cols THEN x' = x + 1 /\ y' = y
                       ELSE x' = 0 /\ y' = y + 1
    /\ UNCHANGED << pc, elevations, width, height, tessellation_factor,
                    interpolated, vertex_count, arg, ret >>

\* Return with vertex_count the number of floats.
Return_CountsFloats ==
    /\ pc = "loop"
    /\ y >= Rows \/ Cols = 0
    /\ pc' = "done"
    /\ vertex_count' = Len(vertices)
    /\ UNCHANGED << elevations, width, height, tessellation_factor, interpolated,
                    x, y, vertices, colors, normals, arg, ret >>

\* The loops are over (no row is left, or the rows have no cell): the
\* call returns its MeshComputeData.
Return ==
    /\ pc = "loop"
    /\ y >= Rows \/ Cols = 0
    /\ pc' = "done"
    /\ vertex_count' = Len(vertices) \div 3
    /\ UNCHANGED << elevations, width, height, tessellation_factor, interpolated,
                    x, y, vertices, colors, normals, arg, ret >>

Next == Interpolate \/ OverflowPanic \/ IndexPanic \/ EmitCell \/ Return

Spec == Init /\ [][Next]_vars

\* ------------------------------------------- calls of the private functions

\* The defaults of mesh_compute's variables while a private function is
\* called on its own.
NoMesh ==
    /\ elevations = << >>
    /\ width = 0
    /\ height = 0
    /\ tessellation_factor = 0
    /\ interpolated = << >>
    /\ x = 0
    /\ y = 0
    /\ vertices = << >>
    /\ colors = << >>
    /\ normals = << >>
    /\ vertex_count = 0

meshVars == << elevations, width, height, tessellation_factor, interpolated,
               x, y, vertices, colors, normals, vertex_count >>

\* Bounds of the values get_color_for_elevation is called with: the
\* multiples of 1 / ColorSteps from 0 to 1 and ColorOver steps beyond,
\* and their negatives.
ColorSteps == 40
ColorOver == 20

ColorInputs ==
    LET pos == { FDiv(FromUsize(k), FromUsize(ColorSteps)) :
                    k \in 0..(ColorSteps + ColorOver) }
    IN pos \cup { Neg(v) : v \in pos }
           \cup { TERRAIN_COLORS[i][1] : i \in 1..Len(TERRAIN_COLORS) }
           \cup { Inf(0), Inf(1), NaN }

InitColor ==
    /\ pc = "call"
    /\ arg \in [fn : {"get_color_for_elevation"}, normalized_elevation : ColorInputs]
    /\ ret = NoCall
    /\ NoMesh

CallColor ==
    /\ pc = "call"
    /\ arg.fn = "get_color_for_elevation"
    /\ ret' = get_color_for_elevation(arg.normalized_elevation)
    /\ pc' = "returned"
    /\ UNCHANGED << arg, meshVars >>

SpecColor == InitColor /\ [][CallColor]_vars

\* Bounds of the triangles calculate_normal is called with: corners on the
\* integer lattice 0..MaxCoord (v1 on 0..1), scaled by a power of two.
MaxCoord == 1

\* The exponents of the scales: 2^0, one at which the squares of the cross
\* product underflow, one at which they overflow, and one at which the
\* cross product itself does.
Scales == {0, -70, 40, 70}

Lattice(n) == { <<i, j, k>> : i \in 0..n, j \in 0..n, k \in 0..n }

\* The f32 point of a lattice point p at scale 2^e.
PointOf(p, e) ==
    << FMul(FromUsize(p[1]), Pow2F(e)), FMul(FromUsize(p[2]), Pow2F(e)),
       FMul(FromUsize(p[3]), Pow2F(e)) >>

InitNormal ==
    /\ pc = "call"
    /\ arg \in [fn : {"calculate_normal"}, p1 : Lattice(1), p2 : Lattice(MaxCoord),
                p3 : Lattice(MaxCoord), scale : Scales]
    /\ ret = NoCall
    /\ NoMesh

CallNormal ==
    /\ pc = "call"
    /\ arg.fn = "calculate_normal"
    /\ ret' = calculate_normal(PointOf(arg.p1, arg.scale), PointOf(arg.p2, arg.scale),
                               PointOf(arg.p3, arg.scale))
    /\ pc' = "returned"
    /\ UNCHANGED << arg, meshVars >>

SpecNormal == InitNormal /\ [][CallNormal]_vars

\* ------------------------------------------------- properties: mesh_compute

\* The inputs the documentation calls valid.
ValidInput ==
    /\ width >= 2
    /\ height >= 2
    /\ tessellation_factor >= 1
    /\ Len(elevations) = width * height

AllFinite(s) == \A i \in 1..Len(s) : IsFinite(s[i])

FGt(a, b) == FLt(b, a)

\* The n-th triple of a buffer, n counted from 0.
Triple(buf, n) == << buf[3 * n + 1], buf[3 * n + 2], buf[3 * n + 3] >>

\* The triangles in the buffers, counted from 0.
Triangles == 0..(Len(vertices) \div 9 - 1)

\* C1: when a call with valid input has returned, vertex_count is
\* (width * t - 1) * (height * t - 1) * 6 and each of the three buffers
\* holds exactly 3 * vertex_count floats.
C1_Cardinality ==
    (pc = "done" /\ ValidInput) =>
        /\ vertex_count = (new_width - 1) * (new_height - 1) * 6
        /\ Len(vertices) = 3 * vertex_count
        /\ Len(colors) = 3 * vertex_count
        /\ Len(normals) = 3 * vertex_count

C1_Witness ==
    /\ pc = "done"
    /\ ValidInput
    /\ width = 3 /\ height = 2 /\ tessellation_factor = 2
    /\ vertex_count = 90
    /\ Len(normals) = 270

\* C2 as stated: a call with invalid input neither panics nor returns
\* buffers (it would end in a validation failure, which mesh_compute has no
\* way to report).
C2_InvalidRejected ==
    ~ValidInput => pc \notin {"panic", "done"}

\* C3 as stated: once the grid is upsampled, every target cell whose mapped
\* source coordinate is integral holds the source sample at that
\* coordinate, whatever the grid values.
IntegralCells ==
    { c \in (0..(new_width - 1)) \X (0..(new_height - 1)) :
        /\ (c[1] * (width - 1)) % (new_width - 1) = 0
        /\ (c[2] * (height - 1)) % (new_height - 1) = 0 }

SourceOf(c) ==
    elevations[((c[2] * (height - 1)) \div (new_height - 1)) * width
               + ((c[1] * (width - 1)) \div (new_width - 1)) + 1]

SamplesKept ==
    \A c \in IntegralCells :
        FEq(interpolated[c[2] * new_width + c[1] + 1], SourceOf(c))

CornerOrder == << <<0, 0>>, <<1, 0>>, <<0, 1>>, <<1, 0>>, <<1, 1>>, <<0, 1>> >>

\* The position of the grid corner (i, j).
CornerAt(i, j) ==
    << FSub(FMul(FDiv(FromUsize(i), FromUsize(new_width - 1)), Two), One),
       FSub(FMul(FDiv(FromUsize(j), FromUsize(new_height - 1)), Two), One),
       interpolated[j * new_width + i + 1] >>

\* C4: when a call has returned, the k-th position of the c-th group of
\* six is the k-th corner, in the order above, of the c-th cell in
\* row-major order, at (i / (new_width - 1) * 2 - 1,
\* j / (new_height - 1) * 2 - 1, interpolated[j * new_width + i]); and
\* the 2 x 2 grid [0, 0, 0, 1] with factor 1 gives
\* (-1,-1,0), (1,-1,0), (-1,1,0), (1,-1,0), (1,1,1), (-1,1,0).
C4_EmissionOrder ==
    pc = "done" =>
        /\ Len(vertices) % 18 = 0
        /\ \A c \in 0..(Len(vertices) \div 18 - 1), k \in 1..6 :
               Triple(vertices, 6 * c + k - 1)
                   = CornerAt((c % (new_width - 1)) + CornerOrder[k][1],
                              (c \div (new_width - 1)) + CornerOrder[k][2])
        /\ ValidInput => Len(vertices) = 18 * (new_width - 1) * (new_height - 1)
        /\ (/\ width = 2 /\ height = 2 /\ tessellation_factor = 1
            /\ elevations = << Zero(0), Zero(0), Zero(0), One >>) =>
               vertices = << Neg(One), Neg(One), Zero(0),   One, Neg(One), Zero(0),
                             Neg(One), One, Zero(0),        One, Neg(One), Zero(0),
                             One, One, One,                 Neg(One), One, Zero(0) >>

C4_Witness ==
    /\ pc = "done"
    /\ width = 2 /\ height = 2 /\ tessellation_factor = 1
    /\ elevations = << Zero(0), Zero(0), Zero(0), One >>
    /\ Len(vertices) = 18
    /\ Triple(vertices, 4) = << One, One, One >>

\* C5: when a call has returned, the three normals stored for a triangle
\* are the same triple, and it is calculate_normal of the three positions
\* stored for that triangle, in their order.
C5_FlatNormals ==
    pc = "done" =>
        \A t \in Triangles :
            /\ Triple(normals, 3 * t) = Triple(normals, 3 * t + 1)
            /\ Triple(normals, 3 * t) = Triple(normals, 3 * t + 2)
            /\ Triple(normals, 3 * t)
                   = calculate_normal(Triple(vertices, 3 * t),
                                      Triple(vertices, 3 * t + 1),
                                      Triple(vertices, 3 * t + 2))

\* Two triangles that share a grid corner and carry different normals.
C5_Witness ==
    /\ pc = "done"
    /\ ValidInput
    /\ \E t \in Triangles :
           /\ t + 1 \in Triangles
           /\ Triple(vertices, 3 * t + 1) = Triple(vertices, 3 * t + 3)
           /\ Triple(normals, 3 * t + 1) # Triple(normals, 3 * t + 3)
           /\ FGt(Triple(normals, 3 * t + 3)[3], Zero(0))

CellOf(t) == t \div 2

CellDx(t) == FSub(Triple(vertices, 6 * CellOf(t) + 1)[1], Triple(vertices, 6 * CellOf(t))[1])

CellDy(t) == FSub(Triple(vertices, 6 * CellOf(t) + 2)[2], Triple(vertices, 6 * CellOf(t))[2])

TriCross(t) ==
    CrossProduct(Triple(vertices, 3 * t), Triple(vertices, 3 * t + 1),
                 Triple(vertices, 3 * t + 2))

\* The cross products wind upwards, and no length is zero.
WindsUp(t) ==
    /\ TriCross(t)[3] = FMul(CellDx(t), CellDy(t))
    /\ FGt(TriCross(t)[3], Zero(0))
    /\ ~FEq(VectorLength(TriCross(t)), Zero(0))

\* C10 as stated: when a call with valid input and finite elevations has
\* returned, every triangle's cross product has the z-component
\* (x2 - x1) * (y2 - y1) > 0, the zero-length fallback was not taken, and
\* every emitted normal has a z-component above zero.
C10_StrictlyUp ==
    (pc = "done" /\ ValidInput /\ AllFinite(elevations)) =>
        \A t \in Triangles :
            /\ WindsUp(t)
            /\ FGt(Triple(normals, 3 * t)[3], Zero(0))

\* C10: when a call with valid input and finite elevations has returned,
\* every triangle's cross product has the z-component
\* (x2 - x1) * (y2 - y1) > 0, the zero-length fallback was not taken, and
\* no emitted normal has a negative z-component; it is above zero wherever
\* the sum of the squares of the cross product is finite.
C10_NeverDown ==
    (pc = "done" /\ ValidInput /\ AllFinite(elevations)) =>
        \A t \in Triangles :
            /\ WindsUp(t)
            /\ ~FLt(Triple(normals, 3 * t)[3], Zero(0))
            /\ IsFinite(SquaredLength(TriCross(t))) =>
                   FGt(Triple(normals, 3 * t)[3], Zero(0))

\* A steep triangle (its normal leans over) next to the spike.
C10_Witness ==
    /\ pc = "done"
    /\ ValidInput
    /\ AllFinite(elevations)
    /\ tessellation_factor = 2
    /\ \E t \in Triangles :
           /\ t % 2 = 1
           /\ FGt(Triple(normals, 3 * t)[3], Zero(0))
           /\ FLt(Triple(normals, 3 * t)[3], F32(8388608, -24))

\* ------------------------------------- properties: get_color_for_elevation

Stop(i) == TERRAIN_COLORS[i][1]

StopColor(i) == TERRAIN_COLORS[i][2]

LastColor == StopColor(Len(TERRAIN_COLORS))

Pairs == 1..(Len(TERRAIN_COLORS) - 1)

\* stop i <= v <= stop i+1
Between(v, i) == FLe(Stop(i), v) /\ FLe(v, Stop(i + 1))

ColorReturned == pc = "returned" /\ arg.fn = "get_color_for_elevation"

\* C6: a value no adjacent pair of stops brackets gets the last stop's
\* colour (1, 1, 1), and so does every value below 0.0 and every value
\* above 1.0; none of them gets the first stop's colour.
C6_TopColourOutside ==
    ColorReturned =>
        /\ (\A i \in Pairs : ~Between(arg.normalized_elevation, i)) =>
               ret = LastColor
        /\ (FLt(arg.normalized_elevation, Zero(0)) \/ FGt(arg.normalized_elevation, One)) =>
               /\ ret = RGB(One, One, One)
               /\ ret # StopColor(1)

C6_Witness ==
    /\ ColorReturned
    /\ FLt(arg.normalized_elevation, Zero(0))
    /\ IsFinite(arg.normalized_elevation)
    /\ ret = RGB(One, One, One)

\* The first pair of stops, in ascending order, that brackets v.
FirstPair(v) ==
    CHOOSE i \in Pairs : Between(v, i) /\ \A j \in 1..(i - 1) : ~Between(v, j)

\* c1 + (c2 - c1) * t
Lerp(c1, c2, t) == FAdd(c1, FMul(FSub(c2, c1), t))

\* The blend of the stops i and i+1 at v.
LinearBlend(v, i) ==
    LET t == FDiv(FSub(v, Stop(i)), FSub(Stop(i + 1), Stop(i)))
    IN RGB(Lerp(StopColor(i).r, StopColor(i + 1).r, t),
           Lerp(StopColor(i).g, StopColor(i + 1).g, t),
           Lerp(StopColor(i).b, StopColor(i + 1).b, t))

InUnit(v) == FLe(Zero(0), v) /\ FLe(v, One)

\* C7 as stated: a value in [0, 1] gets the blend of the first pair that
\* brackets it, and a value equal to a stop gets exactly that stop's
\* colour.
C7_StopsExact ==
    (ColorReturned /\ InUnit(arg.normalized_elevation)) =>
        /\ ret = LinearBlend(arg.normalized_elevation, FirstPair(arg.normalized_elevation))
        /\ \A i \in 1..Len(TERRAIN_COLORS) :
               FEq(arg.normalized_elevation, Stop(i)) => ret = StopColor(i)

\* C7: a value in [0, 1] gets the blend c1 + (c2 - c1) * t,
\* t = (value - stop1) / (stop2 - stop1), of the first pair that brackets
\* it; a value equal to a stop gets exactly that stop's colour at the
\* stops 0.0, 0.3, 0.5, 0.7, 0.9 and 1.0, and at the stop 0.1 it gets the
\* stop's red and green and a blue one unit in the last place above the
\* stop's 0.4.
C7_FirstPairBlend ==
    (ColorReturned /\ InUnit(arg.normalized_elevation)) =>
        /\ ret = LinearBlend(arg.normalized_elevation, FirstPair(arg.normalized_elevation))
        /\ \A i \in 1..Len(TERRAIN_COLORS) :
               FEq(arg.normalized_elevation, Stop(i)) =>
                   IF i = 2
                     THEN ret = RGB(StopColor(2).r, StopColor(2).g, F32(13421774, -25))
                     ELSE ret = StopColor(i)

\* The stop 0.5, which the pairs (0.3, 0.5) and (0.5, 0.7) both bracket.
C7_Witness ==
    /\ ColorReturned
    /\ arg.normalized_elevation = Stop(4)
    /\ FirstPair(arg.normalized_elevation) = 3
    /\ Between(arg.normalized_elevation, 4)
    /\ ret = StopColor(4)

\* ------------------------------------------- properties: calculate_normal

NormalReturned == pc = "returned" /\ arg.fn = "calculate_normal"

\* The cross product (p2 - p1) x (p3 - p1) of lattice points, in integers.
LatticeCross(p1, p2, p3) ==
    << (p2[2] - p1[2]) * (p3[3] - p1[3]) - (p2[3] - p1[3]) * (p3[2] - p1[2]),
       (p2[3] - p1[3]) * (p3[1] - p1[1]) - (p2[1] - p1[1]) * (p3[3] - p1[3]),
       (p2[1] - p1[1]) * (p3[2] - p1[2]) - (p2[2] - p1[2]) * (p3[1] - p1[1]) >>

ArgCross == LatticeCross(arg.p1, arg.p2, arg.p3)

\* The corners are collinear or coincide.
Degenerate == ArgCross = <<0, 0, 0>>

ZeroVector == << Zero(0), Zero(0), Zero(0) >>

\* The squared magnitude is 1 to within 2^-20.
NearUnit(n) ==
    /\ FLe(FSub(SquaredLength(n), One), Pow2F(-20))
    /\ FLe(FSub(One, SquaredLength(n)), Pow2F(-20))

\* Each component of n has the sign of the cross product's.
AlongCross(n) ==
    \A i \in 1..3 :
        /\ ArgCross[i] > 0 => FGt(n[i], Zero(0))
        /\ ArgCross[i] < 0 => FLt(n[i], Zero(0))
        /\ ArgCross[i] = 0 => IsZero(n[i])

ArgCrossF32 ==
    CrossProduct(PointOf(arg.p1, arg.scale), PointOf(arg.p2, arg.scale),
                 PointOf(arg.p3, arg.scale))

\* A finite f32 of at least 2^-126.
IsNormal(a) == IsFinite(a) /\ ~IsZero(a) /\ a.exp >= MinExp

====
